---- MODULE Spec2Model ----
(***************************************************************************)
(* SAP Job Finder: the LinkedIn job query client (linkedin_api.py) and the *)
(* pagination logic of the Streamlit page (app.py).                        *)
(*                                                                         *)
(* Python / JSON values are tagged records:                                *)
(*   None  [t |-> "null"]            bool  [t |-> "bool", b |-> TRUE]      *)
(*   int   [t |-> "num", n |-> 5]    str   [t |-> "str", s |-> "SAP"]      *)
(*   list  [t |-> "list", l |-> <<v1, v2>>]                                *)
(*   dict  [t |-> "obj", ks |-> <<key, ...>>, o |-> [key |-> value, ...]]   *)
(*         ks holds the keys in insertion order, o the items               *)
(***************************************************************************)
EXTENDS Integers, Sequences, FiniteSets, TLC

VARIABLES
    api_key,        \* LinkedInJobAPI.api_key
    api_host,       \* LinkedInJobAPI.api_host
    base_url,       \* LinkedInJobAPI.base_url
    pc,             \* position of the current search_sap_jobs call
    criteria,       \* arguments of the latest search_sap_jobs call
    params,         \* query parameters built by the current call
    requests,       \* number of requests.get calls issued by the current call
    response,       \* what requests.get did (response or raised exception)
    result,         \* dictionary returned by search_sap_jobs, or what it raised
    data,           \* argument of _parse_jobs (normalization on its own)
    parsed,         \* what _parse_jobs(data) returned or raised
    page_offset,    \* st.session_state.page_offset
    search_results, \* st.session_state.search_results
    w_location,     \* "Location" selectbox
    w_remote_only,  \* "Remote Jobs Only" checkbox
    w_days_back,    \* "Posted Within (Days)" slider
    w_per_page,     \* "Results Per Page" select slider
    prev_shown,     \* the last script run rendered "Previous Page"
    next_shown,     \* the last script run rendered "Next Page"
    rerun_pending,  \* st.rerun() was called by the last script run
    ui_pc,          \* position of the running main(): idle, waiting, rendering
    run_click       \* the button press that started the running main()

clientVars == <<api_key, api_host, base_url, pc, criteria, params, requests,
                response, result>>
parseVars == <<data, parsed>>
uiVars == <<page_offset, search_results, w_location, w_remote_only,
            w_days_back, w_per_page, prev_shown, next_shown, rerun_pending,
            ui_pc, run_click>>
vars == <<clientVars, parseVars, uiVars>>

----------------------------------------------------------------------------
(* Bounds of the model *)

\* longest raw job list in a response body
MaxItems == 3
\* longest locations_derived / employment_type list of a raw job
MaxLocs == 3
\* largest pagination offset from which Next Page is still followed
MaxOffset == 100

----------------------------------------------------------------------------
(* Python values *)

Null == [t |-> "null"]
Bool(b) == [t |-> "bool", b |-> b]
Num(n) == [t |-> "num", n |-> n]
Str(s) == [t |-> "str", s |-> s]
Lst(l) == [t |-> "list", l |-> l]
Obj(ks, o) == [t |-> "obj", ks |-> ks, o |-> o]

\* bool(v): Python truthiness
Truthy(v) ==
    CASE v.t = "null" -> FALSE
      [] v.t = "bool" -> v.b
      [] v.t = "num"  -> v.n # 0
      [] v.t = "str"  -> v.s # ""
      [] v.t = "list" -> v.l # <<>>
      [] v.t = "obj"  -> DOMAIN v.o # {}

\* type(v).__name__, as it appears in TypeError messages
TypeName(v) ==
    CASE v.t = "null" -> "NoneType"
      [] v.t = "bool" -> "bool"
      [] v.t = "num"  -> "int"
      [] v.t = "str"  -> "str"
      [] v.t = "list" -> "list"
      [] v.t = "obj"  -> "dict"

\* dict.get(k, d) on the dict whose items are o
Get(o, k, d) == IF k \in DOMAIN o THEN o[k] ELSE d

\* the characters of a str, as a sequence of one-character strs
Chars(s) == [i \in 1..Len(s) |-> Str(SubSeq(s, i, i))]

\* iter(v) works for list, str and dict only
Iterable(v) == v.t \in {"list", "str", "obj"}

\* the sequence of values that iterating v yields; a dict yields its keys in
\* insertion order
Iterate(v) ==
    CASE v.t = "list" -> v.l
      [] v.t = "str"  -> Chars(v.s)
      [] v.t = "obj"  -> [i \in 1..Len(v.ks) |-> Str(v.ks[i])]

\* v[:2] is defined for list and str only
Sliceable(v) == v.t \in {"list", "str"}

\* v[:2]
FirstTwo(v) ==
    CASE v.t = "list" -> Lst(SubSeq(v.l, 1, IF Len(v.l) < 2 THEN Len(v.l) ELSE 2))
      [] v.t = "str"  -> Str(SubSeq(v.s, 1, IF Len(v.s) < 2 THEN Len(v.s) ELSE 2))

\* ", ".join(v) raises TypeError unless v is iterable and yields only strs
Joinable(v) ==
    /\ Iterable(v)
    /\ \A i \in 1..Len(Iterate(v)) : Iterate(v)[i].t = "str"

RECURSIVE JoinSeq(_)
JoinSeq(q) ==
    IF q = <<>> THEN ""
    ELSE IF Len(q) = 1 THEN q[1].s
    ELSE q[1].s \o ", " \o JoinSeq(Tail(q))

\* ", ".join(v)
Join(v) == Str(JoinSeq(Iterate(v)))

----------------------------------------------------------------------------
(* LinkedInJobAPI._parse_jobs *)

\* variant: the title is read with job["title"], a KeyError when missing
ItemRaises_TitleRequired(job) ==
    \/ job.t # "obj"
    \/ /\ job.t = "obj"
       /\ "title" \notin DOMAIN job.o

\* the body of the try block raises for this raw item
ItemRaises(job) ==
    \/ job.t # "obj"
    \/ /\ job.t = "obj"
       /\ \/ /\ Truthy(Get(job.o, "locations_derived", Null))
             /\ \/ ~Sliceable(job.o["locations_derived"])
                \/ /\ Sliceable(job.o["locations_derived"])
                   /\ ~Joinable(FirstTwo(job.o["locations_derived"]))
          \/ /\ Truthy(Get(job.o, "employment_type", Null))
             /\ ~Joinable(Get(job.o, "employment_type", Lst(<<>>)))

\* variant: all derived locations are joined, not the first two
ItemLocation_JoinAll(job) ==
    IF Truthy(Get(job.o, "locations_derived", Null))
    THEN Join(job.o["locations_derived"])
    ELSE IF Truthy(Get(job.o, "location", Null))
    THEN job.o["location"]
    ELSE Str("N/A")

\* the location computed for a raw item
ItemLocation(job) ==
    IF Truthy(Get(job.o, "locations_derived", Null))
    THEN Join(FirstTwo(job.o["locations_derived"]))
    ELSE IF Truthy(Get(job.o, "location", Null))
    THEN job.o["location"]
    ELSE Str("N/A")

\* the parsed_job dictionary of a raw item that does not raise
ParsedJob(job) ==
    [ title       |-> Get(job.o, "title", Str("N/A")),
      company     |-> Get(job.o, "organization", Str("N/A")),
      location    |-> ItemLocation(job),
      posted_date |-> Get(job.o, "date_posted", Get(job.o, "posted_at", Str("N/A"))),
      description |-> Get(job.o, "description_text",
                          Get(job.o, "description", Str("No description available"))),
      apply_url   |-> Get(job.o, "url", Get(job.o, "apply_url", Str("#"))),
      type        |-> IF Truthy(Get(job.o, "employment_type", Null))
                      THEN Join(Get(job.o, "employment_type", Lst(<<>>)))
                      ELSE Str("N/A"),
      remote      |-> Get(job.o, "remote_derived", Get(job.o, "remote", Bool(FALSE))),
      salary      |-> Get(job.o, "salary_raw", Str("Not specified")),
      industry    |-> Get(job.o, "linkedin_org_industry", Str("N/A")) ]

\* variant: break instead of continue in the except clause
RECURSIVE ParseLoop_BreakOnError(_)
ParseLoop_BreakOnError(job_list) ==
    IF job_list = <<>> \/ ItemRaises(Head(job_list)) THEN <<>>
    ELSE <<ParsedJob(Head(job_list))>> \o ParseLoop_BreakOnError(Tail(job_list))

\* the for loop: items that raise are skipped, the others appended in order
ParseLoop(job_list) ==
    LET kept == SelectSeq(job_list, LAMBDA job : ~ItemRaises(job))
    IN  [i \in 1..Len(kept) |-> ParsedJob(kept[i])]

\* the raw list _parse_jobs iterates over; Null when it returns early
JobList(d) ==
    IF d.t = "list" THEN d
    ELSE IF d.t = "obj" /\ "jobs" \in DOMAIN d.o THEN d.o["jobs"]
    ELSE Null

\* _parse_jobs(d): the returned list, or the TypeError of the for statement
ParseJobs(d) ==
    LET job_list == JobList(d)
    IN  IF d.t # "list" /\ ~(d.t = "obj" /\ "jobs" \in DOMAIN d.o)
        THEN [raised |-> FALSE, jobs |-> <<>>]
        ELSE IF ~Iterable(job_list)
        THEN [raised |-> TRUE,
              msg |-> "'" \o TypeName(job_list) \o "' object is not iterable"]
        ELSE [raised |-> FALSE, jobs |-> ParseLoop(Iterate(job_list))]

----------------------------------------------------------------------------
(* LinkedInJobAPI.__init__ and search_sap_jobs *)

Failure(msg) == [success |-> FALSE, error |-> Str(msg), jobs |-> <<>>]

Success(jobs, total) ==
    [success |-> TRUE, jobs |-> jobs, total |-> total, error |-> Null]

\* base_url chosen by __init__
BaseUrl(host) ==
    IF ~Truthy(host)
    THEN "https://linkedin-job-search-api.p.rapidapi.com/active-jb-7d"
    ELSE "https://" \o host.s \o "/active-jb-7d"

\* variant: only the key is tested
CredsMissing_KeyOnly(key, host) == ~Truthy(key)

\* not self.api_key or not self.api_host
CredsMissing(key, host) == ~Truthy(key) \/ ~Truthy(host)

\* date.min.toordinal(), date.max.toordinal() and timedelta.max.days
MinOrdinal == 1
MaxOrdinal == 3652059
MaxDeltaDays == 999999999

\* datetime.now() - timedelta(days=days_back), as a day ordinal; the cutoff is
\* formatted into posted_after, which is never used
PostedAfter(today, days_back) ==
    today - (IF days_back.t = "bool" THEN (IF days_back.b THEN 1 ELSE 0)
             ELSE days_back.n)

\* the exception line 60 raises, "none" when it raises nothing
PostedAfterRaises(today, days_back) ==
    IF days_back.t \notin {"num", "bool"} THEN "TypeError"
    ELSE IF days_back.t = "num"
            /\ (days_back.n > MaxDeltaDays \/ days_back.n < -MaxDeltaDays)
    THEN "OverflowError"
    ELSE IF PostedAfter(today, days_back) < MinOrdinal
            \/ PostedAfter(today, days_back) > MaxOrdinal
    THEN "OverflowError"
    ELSE "none"

\* variant: the "All Locations" sentinel is sent like any other location
BuildParams_NoSentinel(c) ==
    LET withLoc == Truthy(c.location)
        withRem == c.remote = Bool(TRUE)
        keys == {"title_filter", "limit", "offset", "description_type"}
                  \cup (IF withLoc THEN {"location_filter"} ELSE {})
                  \cup (IF withRem THEN {"remote"} ELSE {})
    IN  [k \in keys |->
            CASE k = "title_filter"     -> Str("SAP")
              [] k = "limit"            -> Num(c.limit)
              [] k = "offset"           -> Num(c.offset)
              [] k = "description_type" -> Str("text")
              [] k = "location_filter"  -> c.location
              [] k = "remote"           -> Str("true")]

\* params.  posted_after is computed from days_back but never sent.
BuildParams(c) ==
    LET withLoc == Truthy(c.location) /\ c.location # Str("All Locations")
        withRem == c.remote = Bool(TRUE)
        keys == {"title_filter", "limit", "offset", "description_type"}
                  \cup (IF withLoc THEN {"location_filter"} ELSE {})
                  \cup (IF withRem THEN {"remote"} ELSE {})
    IN  [k \in keys |->
            CASE k = "title_filter"     -> Str("SAP")
              [] k = "limit"            -> Num(c.limit)
              [] k = "offset"           -> Num(c.offset)
              [] k = "description_type" -> Str("text")
              [] k = "location_filter"  -> c.location
              [] k = "remote"           -> Str("true")]

\* len(data) if isinstance(data, list) else 0
Total(d) == IF d.t = "list" THEN Len(d.l) ELSE 0

\* exception classes, each with its base classes (isinstance);
\* KeyboardInterrupt, SystemExit and GeneratorExit do not derive from Exception
Bases(cls) ==
    CASE cls = "Timeout"          -> {"Timeout", "RequestException", "Exception",
                                      "BaseException"}
      [] cls = "JSONDecodeError"  -> {"JSONDecodeError", "RequestException",
                                      "ValueError", "Exception", "BaseException"}
      [] cls = "RequestException" -> {"RequestException", "Exception",
                                      "BaseException"}
      [] cls \in {"KeyboardInterrupt", "SystemExit", "GeneratorExit",
                  "BaseException"} -> {cls, "BaseException"}
      [] OTHER                    -> {cls, "Exception", "BaseException"}

Raised(cls, msg) == [raised |-> TRUE, cls |-> cls, msg |-> msg]
Returned(v) == [raised |-> FALSE, value |-> v]

\* the try block, given what requests.get did: a return value or an exception
TryBlock(r) ==
    CASE r.kind = "timeout" -> Raised("Timeout", r.msg)
      [] r.kind = "request_exception" -> Raised("RequestException", r.msg)
      [] r.kind = "exception" -> Raised(r.cls, r.msg)
      [] r.kind = "response" ->
            IF r.status = 200
            THEN IF r.json.t = "invalid"
                 THEN Raised(r.json.exc, r.json.msg)
                 ELSE LET jobs == ParseJobs(r.json)
                      IN  IF jobs.raised
                          THEN Raised("TypeError", jobs.msg)
                          ELSE Returned(Success(jobs.jobs, Total(r.json)))
            ELSE IF r.status = 429
            THEN Returned(Failure(
                    "Rate limit exceeded. Please wait a moment and try again."))
            ELSE Returned(Failure(
                    "API error: " \o ToString(r.status) \o " - " \o r.text))

\* variant: the RequestException clause placed before the Timeout clause
Handle_ClausesSwapped(e) ==
    IF "RequestException" \in Bases(e.cls)
    THEN Failure("Network error: " \o e.msg)
    ELSE IF "Timeout" \in Bases(e.cls)
    THEN Failure("Request timed out. Please try again.")
    ELSE Failure("Unexpected error: " \o e.msg)

\* variant: no final except Exception clause
Handle_NoCatchAll(e) ==
    IF "Timeout" \in Bases(e.cls)
    THEN Failure("Request timed out. Please try again.")
    ELSE IF "RequestException" \in Bases(e.cls)
    THEN Failure("Network error: " \o e.msg)
    ELSE [propagated |-> e.cls]

\* the except clauses, first match wins; an exception no clause matches
\* leaves search_sap_jobs
Handle(e) ==
    IF "Timeout" \in Bases(e.cls)
    THEN Failure("Request timed out. Please try again.")
    ELSE IF "RequestException" \in Bases(e.cls)
    THEN Failure("Network error: " \o e.msg)
    ELSE IF "Exception" \in Bases(e.cls)
    THEN Failure("Unexpected error: " \o e.msg)
    ELSE [propagated |-> e.cls]

\* what search_sap_jobs returns once requests.get has done r
Classify(r) ==
    LET done == TryBlock(r)
    IN  IF done.raised THEN Handle(done) ELSE done.value

----------------------------------------------------------------------------
(* Inputs of the client model *)

\* {} and {k: v}
EmptyDict == Obj(<<>>, [k \in {} |-> Null])
Single(k, v) == Obj(<<k>>, [x \in {k} |-> v])

\* st.secrets["rapidapi"]: missing (both attributes None) or two strings
SecretsChoices ==
    {[key |-> Null, host |-> Null]} \cup
    {[key |-> Str(k), host |-> Str(h)] :
        k \in {"", "key-1"}, h \in {"", "jobs.example.com"}}

\* datetime.now(), as day ordinals: 2024-01-01 and 2026-10-29
Todays == {738886, 739918}

\* days_back covers the ends of the 1..30 range of the slider
CriteriaSet ==
    [days_back : {Num(1), Num(30)},
     location  : {Null, Str(""), Str("All Locations"), Str("Berlin")},
     remote    : {Null, Bool(FALSE), Bool(TRUE)},
     limit     : {10, 100},
     offset    : {0, 25}]

\* the raw job of the repository's documented example
ExampleJob ==
    Obj(<<"title", "organization", "locations_derived", "remote_derived">>,
        [title |-> Str("SAP Consultant"), organization |-> Str("Acme"),
         locations_derived |-> Lst(<<Str("Berlin"), Str("Remote")>>),
         remote_derived |-> Bool(TRUE)])

\* a raw job with a number where the list of locations is expected
BadJob ==
    Obj(<<"title", "locations_derived">>,
        [title |-> Str("SAP Developer"), locations_derived |-> Num(5)])

\* raw items of a response body: two that parse, two that raise
BodyItems ==
    { ExampleJob,
      EmptyDict,
      Str("junk"),
      BadJob }

RECURSIVE SeqsUpTo(_, _)
SeqsUpTo(S, n) ==
    IF n = 0 THEN {<<>>}
    ELSE LET shorter == SeqsUpTo(S, n - 1)
         IN  shorter \cup {Append(q, x) : q \in shorter, x \in S}

RawLists == {Lst(q) : q \in SeqsUpTo(BodyItems, MaxItems)}

\* JSON documents of an HTTP 200 response
Bodies ==
    RawLists
    \cup {Single("jobs", l) : l \in RawLists}
    \cup { EmptyDict, Single("message", Str("ok")),
           Str("hello"), Num(0), Num(7), Null, Bool(TRUE),
           Single("jobs", Null), Single("jobs", Num(3)),
           Single("jobs", Bool(FALSE)), Single("jobs", Str("ab")),
           Single("jobs", Single("a", Num(1))),
           Obj(<<"count", "jobs">>, [count |-> Num(1), jobs |-> Lst(<<EmptyDict>>)]) }

\* response.json() raised: requests' own JSONDecodeError (a RequestException)
\* in current releases, a plain ValueError in releases before 2.27
InvalidBodies ==
    {[t |-> "invalid", exc |-> e,
      msg |-> "Expecting value: line 1 column 1 (char 0)"] :
        e \in {"JSONDecodeError", "ValueError"}}

\* everything requests.get can do
Outcomes ==
    {[kind |-> "timeout", msg |-> "Read timed out."]}
    \cup {[kind |-> "request_exception", msg |-> m] :
            m \in {"Connection refused", ""}}
    \cup {[kind |-> "exception", cls |-> "RuntimeError", msg |-> "boom"]}
    \cup {[kind |-> "response", status |-> 200, text |-> "", json |-> j] :
            j \in Bodies \cup InvalidBodies}
    \cup {[kind |-> "response", status |-> s, text |-> x, json |-> Null] :
            s \in {429, 404, 500, 201}, x \in {"", "Not Found"}}

----------------------------------------------------------------------------
(* The client as a state machine: one search_sap_jobs call at a time *)

UIInit ==
    /\ page_offset = 0
    /\ search_results = Null
    /\ w_location = "All Locations"
    /\ w_remote_only = FALSE
    /\ w_days_back = 7
    /\ w_per_page = 25
    /\ prev_shown = FALSE
    /\ next_shown = FALSE
    /\ rerun_pending = FALSE
    /\ ui_pc = "idle"
    /\ run_click = "none"

CallIdle ==
    /\ pc = "idle"
    /\ criteria = Null
    /\ params = Null
    /\ requests = 0
    /\ response = Null
    /\ result = Null

Init ==
    /\ \E s \in SecretsChoices :
          /\ api_key = s.key
          /\ api_host = s.host
          /\ base_url = BaseUrl(s.host)
    /\ CallIdle
    /\ data = Null
    /\ parsed = Null
    /\ UIInit

\* LinkedInJobAPI(): a new client reads the secrets
Construct ==
    /\ pc = "idle"
    /\ \E s \in SecretsChoices :
          /\ api_key' = s.key
          /\ api_host' = s.host
          /\ base_url' = BaseUrl(s.host)
    /\ UNCHANGED <<pc, criteria, params, requests, response, result>>
    /\ UNCHANGED <<parseVars, uiVars>>

\* search_sap_jobs up to the request: credential check, cutoff date and
\* parameters; an exception of the cutoff computation leaves the call
SearchBegin ==
    /\ pc = "idle"
    /\ \E c \in CriteriaSet, today \in Todays :
          /\ criteria' = c
          /\ IF CredsMissing(api_key, api_host)
             THEN /\ result' = Failure("API credentials not configured")
                  /\ params' = Null
                  /\ pc' = "returned"
             ELSE IF PostedAfterRaises(today, c.days_back) # "none"
             THEN /\ result' = [propagated |-> PostedAfterRaises(today, c.days_back)]
                  /\ params' = Null
                  /\ pc' = "raised"
             ELSE /\ result' = Null
                  /\ params' = BuildParams(c)
                  /\ pc' = "requesting"
    /\ requests' = 0
    /\ response' = Null
    /\ UNCHANGED <<api_key, api_host, base_url, parseVars, uiVars>>

\* requests.get(base_url, headers, params, timeout=30)
HttpGet ==
    /\ pc = "requesting"
    /\ requests' = requests + 1
    /\ \E r \in Outcomes : response' = r
    /\ pc' = "responded"
    /\ UNCHANGED <<api_key, api_host, base_url, criteria, params, result>>
    /\ UNCHANGED <<parseVars, uiVars>>

\* the rest of the try block, or the matching except clause; an exception
\* that no clause matches leaves the call
Respond ==
    /\ pc = "responded"
    /\ result' = Classify(response)
    /\ pc' = IF "propagated" \in DOMAIN Classify(response)
             THEN "raised" ELSE "returned"
    /\ UNCHANGED <<api_key, api_host, base_url, criteria, params, requests,
                   response>>
    /\ UNCHANGED <<parseVars, uiVars>>

\* the caller takes the dictionary; the call's other locals are gone
Return ==
    /\ pc \in {"returned", "raised"}
    /\ pc' = "idle"
    /\ params' = Null
    /\ requests' = 0
    /\ response' = Null
    /\ result' = Null
    /\ UNCHANGED <<api_key, api_host, base_url, criteria, parseVars, uiVars>>

Next == Construct \/ SearchBegin \/ HttpGet \/ Respond \/ Return

Spec == Init /\ [][Next]_vars

----------------------------------------------------------------------------
(* Normalization on its own: _parse_jobs applied to one raw job object with *)
(* any subset of the fields the code reads                                  *)

\* fields with one sample value each
PlainKeys ==
    {"title", "organization", "date_posted", "posted_at", "description_text",
     "description", "url", "apply_url", "remote_derived", "remote",
     "salary_raw", "linkedin_org_industry"}

PlainValue(k) ==
    CASE k = "title"                 -> Str("SAP Consultant")
      [] k = "organization"          -> Str("Acme")
      [] k = "date_posted"           -> Str("2024-05-02")
      [] k = "posted_at"             -> Str("2024-05-01")
      [] k = "description_text"      -> Str("Plain text")
      [] k = "description"           -> Str("<p>HTML</p>")
      [] k = "url"                   -> Str("https://jobs.example.com/1")
      [] k = "apply_url"             -> Str("https://apply.example.com/1")
      [] k = "remote_derived"        -> Bool(FALSE)
      [] k = "remote"                -> Bool(TRUE)
      [] k = "salary_raw"            -> Str("50000 EUR")
      [] k = "linkedin_org_industry" -> Str("Software")

Places == <<"Berlin", "Remote", "Paris", "Pune", "Delhi">>

\* a list of the first n places
PlaceList(n) == Lst([i \in 1..n |-> Str(Places[i])])

Absent == [t |-> "absent"]

\* choices for the fields the code tests for truthiness
DerivedChoices == {Absent} \cup {PlaceList(n) : n \in 0..MaxLocs}
LocationChoices == {Absent, Null, Str(""), Str("Munich")}
\* employment_type: a list, or the same dict written in two key orders
EmploymentChoices ==
    {Absent, Lst(<<>>), Lst(<<Str("FULL_TIME"), Str("CONTRACTOR")>>),
     Obj(<<"a", "b">>, [a |-> Num(2), b |-> Num(1)]),
     Obj(<<"b", "a">>, [a |-> Num(2), b |-> Num(1)])}

\* the order in which a raw job lists its fields
FieldOrder ==
    <<"title", "organization", "locations_derived", "location", "date_posted",
      "posted_at", "description_text", "description", "url", "apply_url",
      "employment_type", "remote_derived", "remote", "salary_raw",
      "linkedin_org_industry">>

\* the raw job with the plain fields K and the three chosen fields
RawJob(K, ld, loc, et) ==
    LET keys == K \cup (IF ld = Absent THEN {} ELSE {"locations_derived"})
                  \cup (IF loc = Absent THEN {} ELSE {"location"})
                  \cup (IF et = Absent THEN {} ELSE {"employment_type"})
    IN  Obj(SelectSeq(FieldOrder, LAMBDA k : k \in keys),
            [k \in keys |->
                CASE k = "locations_derived" -> ld
                  [] k = "location"          -> loc
                  [] k = "employment_type"   -> et
                  [] OTHER                   -> PlainValue(k)])

ParseInit ==
    /\ (\/ \E K \in SUBSET PlainKeys, ld \in DerivedChoices,
              loc \in LocationChoices, et \in EmploymentChoices :
                data = Lst(<<RawJob(K, ld, loc, et)>>)
        \/ data = Lst(<<ExampleJob>>))
    /\ parsed = Null
    /\ api_key = Null
    /\ api_host = Null
    /\ base_url = BaseUrl(Null)
    /\ CallIdle
    /\ UIInit

\* jobs = self._parse_jobs(data)
Parse ==
    /\ parsed = Null
    /\ parsed' = ParseJobs(data)
    /\ UNCHANGED <<data, clientVars, uiVars>>

ParseNext == Parse

ParseSpec == ParseInit /\ [][ParseNext]_vars

----------------------------------------------------------------------------
(* Normalization of the location: _parse_jobs applied to one raw job whose *)
(* locations_derived and location hold any kind of JSON value               *)

\* locations_derived: absent, falsy values, lists and strings, values that
\* cannot be sliced, and lists holding something other than strings
DerivedValues ==
    DerivedChoices \cup
    {Null, Bool(FALSE), Bool(TRUE), Num(0), Num(5), Str(""), Str("B"),
     Str("Berlin"), EmptyDict, Single("city", Str("Berlin")),
     Lst(<<Str("A"), Str("B"), Num(3)>>), Lst(<<Str("A"), Num(3)>>),
     Lst(<<Num(3)>>), Lst(<<Null, Str("A")>>)}

\* location: absent, falsy values and truthy values of every kind
LocationValues ==
    LocationChoices \cup
    {Bool(FALSE), Bool(TRUE), Num(0), Num(7), Lst(<<>>),
     Lst(<<Str("Munich")>>), EmptyDict, Single("city", Str("Munich"))}

\* plain fields that come and go next to the location fields
LocationKeys == {"title", "organization", "remote_derived", "salary_raw"}

LocationInit ==
    /\ (\/ \E K \in SUBSET LocationKeys, ld \in DerivedValues,
              loc \in LocationValues, et \in EmploymentChoices :
                data = Lst(<<RawJob(K, ld, loc, et)>>)
        \/ data = Lst(<<ExampleJob>>))
    /\ parsed = Null
    /\ api_key = Null
    /\ api_host = Null
    /\ base_url = BaseUrl(Null)
    /\ CallIdle
    /\ UIInit

LocationSpec == LocationInit /\ [][ParseNext]_vars

----------------------------------------------------------------------------
(* The Streamlit page.  Every user interaction and every st.rerun() starts *)
(* a run of main().  A run that searches blocks in requests.get; a user    *)
(* interaction that arrives before the run has finished stops it at its    *)
(* next Streamlit call and starts a new run.                               *)

\* search_sap_jobs as one call: what it returns, or the exception it raises
SearchSapJobs(key, host, c, today, r) ==
    IF CredsMissing(key, host)
    THEN Failure("API credentials not configured")
    ELSE IF PostedAfterRaises(today, c.days_back) # "none"
    THEN [propagated |-> PostedAfterRaises(today, c.days_back)]
    ELSE Classify(r)

PageSizes == {10, 25, 50, 100}
LocationOptions == {"All Locations", "Remote"}
DaysOptions == {7, 30}

UISecrets ==
    {[key |-> Null, host |-> Null],
     [key |-> Str("key-1"), host |-> Str("jobs.example.com")]}

\* a response body with n raw jobs
JobsBody(n) == Lst([i \in 1..n |-> Single("title", Str("SAP Basis Admin"))])

\* what requests.get can do for a page of at most limit jobs
UIOutcomes(limit) ==
    {[kind |-> "timeout", msg |-> "Read timed out."],
     [kind |-> "response", status |-> 429, text |-> "", json |-> Null]}
    \cup {[kind |-> "response", status |-> 200, text |-> "", json |-> JobsBody(n)] :
            n \in {0, 1, limit}}

UISpecInit ==
    /\ \E s \in UISecrets :
          /\ api_key = s.key
          /\ api_host = s.host
          /\ base_url = BaseUrl(s.host)
    /\ CallIdle
    /\ data = Null
    /\ parsed = Null
    /\ UIInit

\* main() from its start to the search_sap_jobs call (lines 161-233), run with
\* the widget values loc, rem, days, per_page and the button press click.
\* A run that was still going on is stopped and leaves the session state as it
\* is.  Without a search the run renders the start page and is over.
StartRun(click, loc, rem, days, per_page) ==
    /\ w_location' = loc
    /\ w_remote_only' = rem
    /\ w_days_back' = days
    /\ w_per_page' = per_page
    /\ rerun_pending' = FALSE
    /\ IF click = "search" \/ search_results # Null
       THEN /\ criteria' = [days_back |-> Num(days),
                            location  |-> IF loc = "All Locations"
                                          THEN Null ELSE Str(loc),
                            remote    |-> IF rem THEN Bool(TRUE) ELSE Null,
                            limit     |-> per_page,
                            offset    |-> page_offset]
            /\ ui_pc' = "waiting"
            /\ run_click' = click
            /\ UNCHANGED <<prev_shown, next_shown>>
       ELSE /\ ui_pc' = "idle"
            /\ run_click' = "none"
            /\ prev_shown' = FALSE
            /\ next_shown' = FALSE
            /\ UNCHANGED criteria
    /\ UNCHANGED <<api_key, api_host, base_url, pc, params, requests, response,
                   result, search_results, page_offset, parseVars>>

\* the user changes one sidebar widget
ChangeFilters ==
    /\ ~rerun_pending
    /\ \E loc \in LocationOptions, rem \in BOOLEAN, days \in DaysOptions,
          per_page \in PageSizes :
          /\ Cardinality({w \in 1..4 :
                <<loc, rem, days, per_page>>[w] #
                <<w_location, w_remote_only, w_days_back, w_per_page>>[w]}) = 1
          /\ StartRun("none", loc, rem, days, per_page)

\* the user presses "Search Jobs"
ClickSearch ==
    /\ ~rerun_pending
    /\ StartRun("search", w_location, w_remote_only, w_days_back, w_per_page)

\* the user presses "Previous Page", on the page since the last rendering
ClickPrevious ==
    /\ ~rerun_pending
    /\ prev_shown
    /\ StartRun("prev", w_location, w_remote_only, w_days_back, w_per_page)

\* the user presses "Next Page", on the page since the last rendering
ClickNext ==
    /\ ~rerun_pending
    /\ next_shown
    /\ page_offset + w_per_page <= MaxOffset
    /\ StartRun("next", w_location, w_remote_only, w_days_back, w_per_page)

\* the run that st.rerun() asked for
Rerun ==
    /\ rerun_pending
    /\ ui_pc = "idle"
    /\ StartRun("none", w_location, w_remote_only, w_days_back, w_per_page)

\* search_sap_jobs returns and line 236 stores its dictionary; an exception
\* it raises ends the run
Receive ==
    /\ ui_pc = "waiting"
    /\ \E r \in UIOutcomes(criteria.limit), today \in Todays :
       \E results \in {SearchSapJobs(api_key, api_host, criteria, today, r)} :
          IF "propagated" \in DOMAIN results
          THEN /\ ui_pc' = "idle"
               /\ prev_shown' = FALSE
               /\ next_shown' = FALSE
               /\ UNCHANGED search_results
          ELSE /\ ui_pc' = "rendering"
               /\ search_results' = results
               /\ UNCHANGED <<prev_shown, next_shown>>
    /\ UNCHANGED <<clientVars, parseVars, page_offset, w_location,
                   w_remote_only, w_days_back, w_per_page, rerun_pending,
                   run_click>>

\* lines 238-271: the job cards and the pagination buttons; the pressed button
\* changes the offset and calls st.rerun(), which ends the run
Render ==
    /\ ui_pc = "rendering"
    /\ ui_pc' = "idle"
    /\ run_click' = "none"
    /\ \E listed \in {search_results.success /\ search_results.jobs # <<>>} :
       \E prev \in {listed /\ page_offset > 0} :
       \E next \in {listed /\ Len(search_results.jobs) = w_per_page} :
          IF prev /\ run_click = "prev"
          THEN /\ page_offset' = page_offset - w_per_page
               /\ rerun_pending' = TRUE
               /\ prev_shown' = TRUE
               /\ next_shown' = FALSE
          ELSE IF next /\ run_click = "next"
          THEN /\ page_offset' = page_offset + w_per_page
               /\ rerun_pending' = TRUE
               /\ prev_shown' = prev
               /\ next_shown' = TRUE
          ELSE /\ page_offset' = page_offset
               /\ rerun_pending' = FALSE
               /\ prev_shown' = prev
               /\ next_shown' = next
    /\ UNCHANGED <<clientVars, parseVars, search_results, w_location,
                   w_remote_only, w_days_back, w_per_page>>

UINext ==
    \/ ChangeFilters \/ ClickSearch \/ ClickPrevious \/ ClickNext \/ Rerun
    \/ Receive \/ Render

UISpec == UISpecInit /\ [][UINext]_vars

----------------------------------------------------------------------------
(* Properties of search_sap_jobs, checked under Spec *)

\* the credentials of the client are absent or empty
NoCredentials ==
    \/ api_key = Null \/ api_key = Str("")
    \/ api_host = Null \/ api_host = Str("")

\* the call got an HTTP response with this status
GotStatus(s) ==
    /\ response # Null
    /\ response.kind = "response"
    /\ response.status = s

\* the call got HTTP 200 with a body that is valid JSON
GotJson == GotStatus(200) /\ response.json.t # "invalid"

\* C1: a call issues no request when the key or the host is absent or empty
\* and exactly one otherwise, whatever that one request does.
C1_RequestCount ==
    /\ requests \in {0, 1}
    /\ pc = "returned" => requests = (IF NoCredentials THEN 0 ELSE 1)
    /\ pc = "responded" => requests = 1

C1_Witness ==
    /\ pc = "returned"
    /\ requests = 1
    /\ GotStatus(429)

\* C2: in every Success outcome total is the length of the raw list used to
\* build jobs (the array itself, or the jobs array of an object), and so
\* total >= len(jobs).
C2_TotalIsRawLength ==
    (pc = "returned" /\ result.success /\ GotJson) =>
        /\ response.json.t = "list" => result.total = Len(response.json.l)
        /\ ( /\ response.json.t = "obj"
             /\ "jobs" \in DOMAIN response.json.o
             /\ response.json.o["jobs"].t = "list" )
              => result.total = Len(response.json.o["jobs"].l)
        /\ result.total >= Len(result.jobs)

\* C3: each failure class has its exact message, and no failure carries jobs.
C3_FailureMessages ==
    pc = "returned" =>
        /\ NoCredentials =>
              result = [success |-> FALSE, jobs |-> <<>>,
                        error |-> Str("API credentials not configured")]
        /\ GotStatus(429) =>
              result = [success |-> FALSE, jobs |-> <<>>,
                        error |-> Str("Rate limit exceeded. Please wait a moment and try again.")]
        /\ (response # Null /\ response.kind = "response"
               /\ response.status \notin {200, 429}) =>
              result = [success |-> FALSE, jobs |-> <<>>,
                        error |-> Str("API error: " \o ToString(response.status)
                                         \o " - " \o response.text)]
        /\ (response # Null /\ response.kind = "timeout") =>
              result = [success |-> FALSE, jobs |-> <<>>,
                        error |-> Str("Request timed out. Please try again.")]
        /\ (response # Null /\ response.kind = "request_exception") =>
              result = [success |-> FALSE, jobs |-> <<>>,
                        error |-> Str("Network error: " \o response.msg)]
        /\ ("success" \in DOMAIN result /\ ~result.success) => result.jobs = <<>>

C3_Witness ==
    /\ pc = "returned"
    /\ GotStatus(404)
    /\ result.error = Str("API error: 404 - Not Found")

\* C4: search_sap_jobs always returns a Success or a Failure dictionary; a
\* 200 response with an unparsable body and an exception raised while
\* normalizing both give a Failure with a message.
C4_NeverPropagates ==
    /\ pc # "raised"
    /\ pc = "returned" =>
        /\ "success" \in DOMAIN result
        /\ result.success \in BOOLEAN
        /\ ~result.success => (result.error.t = "str" /\ result.error.s # "")
        /\ (GotStatus(200) /\ response.json.t = "invalid") => ~result.success
        /\ (GotJson /\ ParseJobs(response.json).raised) => ~result.success

C4_Witness ==
    /\ pc = "returned"
    /\ GotStatus(200)
    /\ response.json.t = "invalid"
    /\ response.json.exc = "ValueError"
    /\ ~result.success

\* C5: the parameters sent are title_filter, limit, offset, description_type,
\* plus location_filter iff location is a non-empty string other than
\* "All Locations", plus remote = "true" iff remote is exactly True.
C5_QueryParameters ==
    params # Null =>
        /\ DOMAIN params =
              {"title_filter", "limit", "offset", "description_type"}
              \cup (IF criteria.location \notin {Null, Str(""), Str("All Locations")}
                    THEN {"location_filter"} ELSE {})
              \cup (IF criteria.remote = Bool(TRUE) THEN {"remote"} ELSE {})
        /\ params["title_filter"] = Str("SAP")
        /\ params["limit"] = Num(criteria.limit)
        /\ params["offset"] = Num(criteria.offset)
        /\ params["description_type"] = Str("text")
        /\ "location_filter" \in DOMAIN params =>
              params["location_filter"] = criteria.location
        /\ "remote" \in DOMAIN params => params["remote"] = Str("true")

C5_Witness ==
    /\ pc = "responded"
    /\ criteria.location = Str("All Locations")
    /\ criteria.remote = Bool(FALSE)
    /\ DOMAIN params = {"title_filter", "limit", "offset", "description_type"}

\* the body is one of the two accepted shapes
AcceptedShape(d) ==
    \/ d.t = "list"
    \/ /\ d.t = "obj"
       /\ "jobs" \in DOMAIN d.o
       /\ d.o["jobs"].t = "list"

\* C6: every 200 body that is neither an array nor an object with a jobs
\* array gives Success with no jobs.
C6_OtherShapesAreEmpty ==
    (pc = "returned" /\ GotJson /\ ~AcceptedShape(response.json)) =>
        /\ "success" \in DOMAIN result
        /\ result.success
        /\ result.jobs = <<>>

\* the raw list of an accepted body
RawList(d) == IF d.t = "list" THEN d.l ELSE d.o["jobs"].l

\* C7: raw items whose extraction raises are skipped; the outcome is Success
\* and jobs holds the records of exactly the other items, in raw order.
C7_SkipAndKeepOrder ==
    (pc = "returned" /\ GotJson /\ AcceptedShape(response.json)) =>
        LET raw  == RawList(response.json)
            good == {i \in 1..Len(raw) : ~ItemRaises(raw[i])}
        IN  /\ result.success
            /\ Len(result.jobs) = Cardinality(good)
            /\ \A i \in good :
                  result.jobs[Cardinality({j \in good : j <= i})] = ParsedJob(raw[i])
            /\ \A i \in 1..Len(raw) :
                  (raw[i].t # "obj" \/ raw[i] = BadJob) => i \notin good

C7_Witness ==
    /\ pc = "returned"
    /\ GotJson
    /\ response.json = Lst(<<ExampleJob, Str("junk"), EmptyDict>>)
    /\ result.success
    /\ Len(result.jobs) = 2
    /\ result.jobs[1].company = Str("Acme")
    /\ result.jobs[2].company = Str("N/A")

----------------------------------------------------------------------------
(* Properties of _parse_jobs, checked under ParseSpec *)

\* the single raw job handed to _parse_jobs, and the keys it has
TheJob == data.l[1].o
TheKeys == DOMAIN TheJob

\* first source when present, else second source when present, else fallback
TwoSource(first, second, fallback) ==
    IF first \in TheKeys THEN TheJob[first]
    ELSE IF second \in TheKeys THEN TheJob[second]
    ELSE fallback

\* C8: a raw job is never dropped for missing fields; every omitted field
\* holds its fallback and each two-source field prefers its first source.
C8_FallbacksForMissingFields ==
    parsed # Null =>
        /\ ~parsed.raised
        /\ Len(parsed.jobs) = 1
        /\ LET rec == parsed.jobs[1]
           IN  /\ "title" \notin TheKeys => rec.title = Str("N/A")
               /\ "organization" \notin TheKeys => rec.company = Str("N/A")
               /\ ("locations_derived" \notin TheKeys /\ "location" \notin TheKeys)
                     => rec.location = Str("N/A")
               /\ "employment_type" \notin TheKeys => rec.type = Str("N/A")
               /\ "linkedin_org_industry" \notin TheKeys => rec.industry = Str("N/A")
               /\ "salary_raw" \notin TheKeys => rec.salary = Str("Not specified")
               /\ rec.posted_date = TwoSource("date_posted", "posted_at", Str("N/A"))
               /\ rec.description =
                     TwoSource("description_text", "description",
                               Str("No description available"))
               /\ rec.apply_url = TwoSource("url", "apply_url", Str("#"))
               /\ rec.remote = TwoSource("remote_derived", "remote", Bool(FALSE))

C8_Witness ==
    /\ parsed # Null
    /\ TheKeys = {"posted_at", "apply_url", "remote"}
    /\ Len(parsed.jobs) = 1
    /\ parsed.jobs[1].title = Str("N/A")
    /\ parsed.jobs[1].posted_date = Str("2024-05-01")
    /\ parsed.jobs[1].remote = Bool(TRUE)

\* the first two entries of a non-empty list of strs, joined with ", "
FirstTwoJoined(l) ==
    IF Len(l) = 1 THEN Str(l[1].s) ELSE Str(l[1].s \o ", " \o l[2].s)

HasDerived ==
    /\ "locations_derived" \in TheKeys
    /\ TheJob["locations_derived"].t = "list"
    /\ TheJob["locations_derived"].l # <<>>

\* the documented example gives Berlin, Remote / Acme / true / Not specified
ExampleHolds ==
    data = Lst(<<ExampleJob>>) =>
        /\ Len(parsed.jobs) = 1
        /\ parsed.jobs[1].location = Str("Berlin, Remote")
        /\ parsed.jobs[1].company = Str("Acme")
        /\ parsed.jobs[1].remote = Bool(TRUE)
        /\ parsed.jobs[1].salary = Str("Not specified")

\* C9 as stated: a non-empty locations_derived gives its first two entries
\* joined, otherwise the plain location field when present, otherwise "N/A".
C9_LocationWhenPresent ==
    (parsed # Null /\ ~parsed.raised /\ Len(parsed.jobs) = 1) =>
        /\ parsed.jobs[1].location =
              (IF HasDerived THEN FirstTwoJoined(TheJob["locations_derived"].l)
               ELSE IF "location" \in TheKeys THEN TheJob["location"]
               ELSE Str("N/A"))
        /\ ExampleHolds

\* the JSON values Python treats as false
Falsy == {Null, Bool(FALSE), Num(0), Str(""), Lst(<<>>), EmptyDict}

DerivedTruthy ==
    /\ "locations_derived" \in TheKeys
    /\ TheJob["locations_derived"] \notin Falsy

LocationTruthy ==
    /\ "location" \in TheKeys
    /\ TheJob["location"] \notin Falsy

\* the entries of a list, the characters of a string
Entries(v) == IF v.t = "list" THEN v.l ELSE Chars(v.s)

\* a list or a string whose first two entries are strings
FirstTwoAreStrings(v) ==
    /\ v.t \in {"list", "str"}
    /\ \A i \in 1..Len(Entries(v)) : i <= 2 => Entries(v)[i].t = "str"

\* C9 amended: a truthy locations_derived (a non-empty list, or a non-empty
\* string, whose characters are its entries) gives its first two entries
\* joined with ", ", whatever the plain location field holds; otherwise the
\* plain location field is used when it is present and truthy; otherwise,
\* also when it is present but falsy, the location is "N/A".  An item whose
\* truthy locations_derived is neither a list nor a string, or has a
\* non-string among its first two entries, yields no record.
C9_LocationByTruthiness ==
    parsed # Null =>
        /\ ~parsed.raised
        /\ IF DerivedTruthy
           THEN IF FirstTwoAreStrings(TheJob["locations_derived"])
                THEN /\ Len(parsed.jobs) = 1
                     /\ parsed.jobs[1].location =
                           FirstTwoJoined(Entries(TheJob["locations_derived"]))
                ELSE parsed.jobs = <<>>
           ELSE /\ Len(parsed.jobs) = 1
                /\ parsed.jobs[1].location =
                      (IF LocationTruthy THEN TheJob["location"]
                       ELSE Str("N/A"))
        /\ ExampleHolds

\* a three-entry list wins over a plain location; only two entries are used
C9_Witness ==
    /\ parsed # Null
    /\ "location" \in TheKeys
    /\ TheJob["location"] = Str("Munich")
    /\ HasDerived
    /\ Len(TheJob["locations_derived"].l) = 3
    /\ parsed.jobs[1].location = Str("Berlin, Remote")

----------------------------------------------------------------------------
(* Properties of the page, checked under UISpec *)

\* C10: the pagination offset kept in session state and passed to
\* search_sap_jobs is never negative.
C10_OffsetNonNegative ==
    /\ page_offset >= 0
    /\ criteria # Null => criteria.offset >= 0

====
